---- MODULE Spec2Model ----
(***************************************************************************)
(* A model of the shipping-bill extractor (extract_shipping_bills.py) and  *)
(* of the upload endpoint (app.py).                                        *)
(*                                                                         *)
(* Text is modelled at the level of whitespace-separated tokens: a line is *)
(* a sequence of tokens (strings), a document's text a sequence of lines.  *)
(* Every regular expression of the source uses \s+ between its parts, so   *)
(* it is modelled as a match over consecutive tokens; the character        *)
(* classes of the source ([A-Z], \d, the unit and currency alternations)   *)
(* are modelled by the token classes below.  List indices are 0-based as   *)
(* in the source; At(s, i) reads element i of a list.                      *)
(***************************************************************************)
EXTENDS Integers, Sequences, FiniteSets, TLC

VARIABLES
    \* ---- one document: the body of the loop of process_shipping_bills
    text,                   \* the raw page text: a sequence of raw lines
    lines,                  \* clean_lines(text)
    common_data,            \* extract_common_fields: the Currency field
    invoice_section_start,  \* extract_all_items, locals
    item_section_start,
    search_text,
    matches,
    seen_items,
    items,
    descriptions,
    desc_indices,
    quantities,
    rates,
    totals,
    scan_i,                 \* the loop variable i of the forward scan
    ran,                    \* the strategies whose body has run, in order
    rows,                   \* the rows appended for this document
    pc,
    \* ---- the batch: process_shipping_bills over a folder
    folder,
    file_idx,
    batch_rows,
    batch_pc,
    \* ---- the upload endpoint
    now,                    \* int(time.time())
    req,
    outputs                 \* the files of OUTPUT_FOLDER: name -> content

docVars == <<text, lines, common_data, invoice_section_start,
             item_section_start, search_text, matches, seen_items, items,
             descriptions, desc_indices, quantities, rates, totals, scan_i,
             ran, rows, pc>>
batchVars == <<folder, file_idx, batch_rows, batch_pc>>
uploadVars == <<now, req, outputs>>
vars == <<docVars, batchVars, uploadVars>>

-----------------------------------------------------------------------------
(* Bounds of the model *)

\* Longest document of the free family (every sequence of vocabulary lines).
MaxLines == 4
\* Longest tail of number and unit lines after the descriptions of a
\* columnar document.
MaxTail == 4
\* Longest document of the currency family.
MaxCurLines == 12
\* Most files in a folder.
MaxFiles == 3
\* Last second of the clock of the upload endpoint.
MaxClock == 2
\* Upload requests in flight.
NumRequests == 2

-----------------------------------------------------------------------------
(* Program constants *)

ItemWindow == 100       \* item_section_start + 100
SectionPadding == 50    \* invoice_section_start - 50
DescLookahead == 10     \* range(i+1, min(i+10, search_range_end))
CurrencyLookahead == 10 \* range(i+1, min(i+10, len(lines)))
ScanWindow == 30        \* range(search_start, min(search_start + 30, ...))
UnitLookahead == 5      \* range(i+1, min(i+5, len(lines)))
MinDescLen == 10        \* len(desc) < 10
MinDescSpaces == 1      \* desc.count(' ') < 1
MinLineDescLen == 5     \* len(line_text) > 5

-----------------------------------------------------------------------------
(* Token classes: the character classes of the source's patterns *)

\* \d+ : the tokens made of digits only.
NumTokens == {"1", "3", "4", "12", "50", "150", "632", "1896",
              "06039000", "06031100"}
\* (KGS|NOS|PCS|MTR|LTR|UNT|BOX)
Units == {"KGS", "NOS", "PCS", "MTR", "LTR", "UNT", "BOX"}
\* (?:KGS|NOS|PCS|MTR|LTR) of the fallback's lookahead
FallbackUnits == {"KGS", "NOS", "PCS", "MTR", "LTR"}
\* (SGD|USD|EUR|GBP|AED|MYR|INR|JPY|CNY|AUD|CAD|CHF)
CurrencyCodes == {"SGD", "USD", "EUR", "GBP", "AED", "MYR", "INR", "JPY",
                  "CNY", "AUD", "CAD", "CHF"}
\* [A-Z]+ : the tokens made of upper-case letters only.
UpperWords == {"FRESH", "FLOWERS", "MIXED", "ROSE", "BUDS", "BUNCH",
               "CARNATIONS", "LILIES", "INVOICE", "DETAILS", "ITEM",
               "EXPORTER"} \cup Units \cup CurrencyCodes
\* The other characters of [A-Z\s&/,.\-], standing alone.
DescSymbols == {"&", "-", "/"}

IsNum(t) == t \in NumTokens
IsCode8(t) == IsNum(t) /\ Len(t) = 8
\* ^[A-Z] : the token starts with an upper-case letter.
StartsUpper(t) == t \in UpperWords
\* every character of the token is in [A-Z&/,.\-]
IsDescToken(t) == t \in UpperWords \cup DescSymbols

At(s, i) == s[i + 1]
Min(a, b) == IF a < b THEN a ELSE b
Max(a, b) == IF a > b THEN a ELSE b
\* s[a:b] of the source
Slice(s, a, b) == SubSeq(s, a + 1, Min(b, Len(s)))

RECURSIVE Flatten(_)
\* The tokens of a sequence of lines: " ".join(lines), or the text itself.
Flatten(ls) == IF ls = <<>> THEN <<>> ELSE Head(ls) \o Flatten(Tail(ls))

RECURSIVE JoinSp(_)
\* The tokens joined by single spaces.
JoinSp(ts) ==
    IF ts = <<>> THEN ""
    ELSE IF Len(ts) = 1 THEN ts[1]
    ELSE ts[1] \o " " \o JoinSp(Tail(ts))

RECURSIVE CharLen(_)
\* len() of the tokens joined by single spaces.
CharLen(ts) ==
    IF ts = <<>> THEN 0
    ELSE IF Len(ts) = 1 THEN Len(ts[1])
    ELSE Len(ts[1]) + 1 + CharLen(Tail(ts))

\* count(' ') of the tokens joined by single spaces.
SpaceCount(ts) == IF ts = <<>> THEN 0 ELSE Len(ts) - 1

-----------------------------------------------------------------------------
(* clean_lines *)

clean_lines(t) == SelectSeq(t, LAMBDA ln : ln # <<>>)

-----------------------------------------------------------------------------
(* extract_common_fields: the Currency field *)

SetMin(S) == CHOOSE x \in S : \A y \in S : x <= y

\* "CURRENC" in ln.upper() or "INVOICE" in ln.upper()
IsCurrencyLabel(ln) ==
    \E k \in 1..Len(ln) : ln[k] \in {"4.CURRENCY", "INVOICE"}

\* re.match(r'^(SGD|USD|...|CHF)$', line)
IsCurrencyLine(ln) == Len(ln) = 1 /\ ln[1] \in CurrencyCodes

\* range(i+1, min(i+10, len(lines)))
CurrencyScanRange(ls, i) ==
    (i + 1) .. (Min(i + CurrencyLookahead, Len(ls)) - 1)

\* The inner loop: the first currency line after label line i, or "".
CodeAfterLabel(ls, i) ==
    LET hits == {j \in CurrencyScanRange(ls, i) : IsCurrencyLine(At(ls, j))}
    IN  IF hits = {} THEN "" ELSE At(ls, SetMin(hits))[1]

RECURSIVE CurrencyFromLines(_, _)
\* The outer loop over the lines, from line i on.
CurrencyFromLines(ls, i) ==
    IF i >= Len(ls) THEN ""
    ELSE IF IsCurrencyLabel(At(ls, i)) /\ CodeAfterLabel(ls, i) # ""
         THEN CodeAfterLabel(ls, i)
         ELSE CurrencyFromLines(ls, i + 1)

\* re.search(r"1\s+(SGD|...|CHF)\s+INR", text)
CurrencyFromRateLine(toks) ==
    LET hits == {k \in 1..(Len(toks) - 2) :
                    /\ toks[k] = "1"
                    /\ toks[k + 1] \in CurrencyCodes
                    /\ toks[k + 2] = "INR"}
    IN  IF hits = {} THEN "" ELSE toks[SetMin(hits) + 1]

extract_common_fields(ls, txt) ==
    LET cur == CurrencyFromLines(ls, 0)
    IN  [Currency |-> IF cur # "" THEN cur
                      ELSE CurrencyFromRateLine(Flatten(txt))]

-----------------------------------------------------------------------------
(* extract_all_items: the section markers and Strategy A *)

Contains(ln, t) == \E k \in 1..Len(ln) : ln[k] = t

\* "PART - II - INVOICE DETAILS" in ln or ("INVOICE" in ln and "DETAILS" in ln)
IsInvoiceMarker(ln) == Contains(ln, "INVOICE") /\ Contains(ln, "DETAILS")

\* "PART - III - ITEM DETAILS" in ln or (item_section_start < 0 and
\* "ITEM DETAILS" in ln): the loop breaks at the first such line, so
\* item_section_start < 0 holds whenever the test is made.
IsItemMarker(ln) ==
    \E k \in 1..(Len(ln) - 1) : ln[k] = "ITEM" /\ ln[k + 1] = "DETAILS"

RECURSIVE FindSections(_, _, _)
\* The marker loop from line i on, inv the invoice marker found so far.
FindSections(ls, i, inv) ==
    IF i >= Len(ls) THEN [invoice |-> inv, item |-> -1]
    ELSE LET inv2 == IF IsInvoiceMarker(At(ls, i)) THEN i ELSE inv
         IN  IF IsItemMarker(At(ls, i))
             THEN [invoice |-> inv2, item |-> i]
             ELSE FindSections(ls, i + 1, inv2)

\* The tokens Strategy A searches.
SearchText(ls, txt, inv, item) ==
    IF inv > 0 /\ item > inv
    THEN Flatten(Slice(ls, inv, item))
    ELSE IF item > 0
         THEN Flatten(Slice(ls, item, Min(item + ItemWindow, Len(ls))))
         ELSE Flatten(txt)

RECURSIVE DescRunEnd(_, _)
\* The last token of the run of description tokens that starts at j
\* (j - 1 when there is none).  [A-Z\s&/,.\-]+? must be followed by \s+\d+,
\* and no digit is in the class, so the lazy match ends where the run ends.
DescRunEnd(toks, j) ==
    IF j <= Len(toks) /\ IsDescToken(toks[j])
    THEN DescRunEnd(toks, j + 1)
    ELSE j - 1

\* item_pattern matched at token i: a sequence of one match, or of none.
ItemMatchAt(toks, i) ==
    IF i + 1 > Len(toks) \/ ~IsCode8(toks[i]) \/ ~StartsUpper(toks[i + 1])
    THEN <<>>
    ELSE LET e == DescRunEnd(toks, i + 1)
         IN  IF /\ e + 4 <= Len(toks)
                /\ IsNum(toks[e + 1])
                /\ toks[e + 2] \in Units
                /\ IsNum(toks[e + 3])
                /\ IsNum(toks[e + 4])
             THEN << [code |-> toks[i], desc |-> SubSeq(toks, i + 1, e),
                      qty |-> toks[e + 1], unit |-> toks[e + 2],
                      rate |-> toks[e + 3], total |-> toks[e + 4],
                      end |-> e + 4] >>
             ELSE <<>>

RECURSIVE FindItemMatches(_, _)
\* re.finditer(item_pattern, search_text): the matches from token i on,
\* left to right, not overlapping.
FindItemMatches(toks, i) ==
    IF i > Len(toks) THEN <<>>
    ELSE LET m == ItemMatchAt(toks, i)
         IN  IF m # <<>>
             THEN m \o FindItemMatches(toks, m[1].end + 1)
             ELSE FindItemMatches(toks, i + 1)

RECURSIVE StripTrailingAmp(_)
\* re.sub(r'[&\s]+$', '', desc).strip()
StripTrailingAmp(d) ==
    IF d # <<>> /\ d[Len(d)] = "&"
    THEN StripTrailingAmp(SubSeq(d, 1, Len(d) - 1))
    ELSE d

\* re.sub(r'\s+', ' ', m.group(2).strip()), then the trailing symbols
CleanDesc(d) == StripTrailingAmp(d)

\* The filter with its length bound off by one: 9 characters pass.
PassesFilterFrom9(d) ==
    ~(CharLen(d) < MinDescLen - 1 \/ SpaceCount(d) < MinDescSpaces)

\* not (len(desc) < 10 or desc.count(' ') < 1)
PassesFilter(d) ==
    ~(CharLen(d) < MinDescLen \/ SpaceCount(d) < MinDescSpaces)

\* (m.group(1), m.group(3), m.group(5), m.group(6))
ItemKey(m) == <<m.code, m.qty, m.rate, m.total>>

\* The duplicate test left out: every match that passes the filter is kept.
IsNewKeyAlways(key, seen) == TRUE

\* item_key not in seen_items
IsNewKey(key, seen) == key \notin seen

ItemOfMatch(m) ==
    [Description |-> JoinSp(CleanDesc(m.desc)), Qty |-> m.qty,
     Rate |-> m.rate, Total |-> m.total]

RECURSIVE CollectItems(_, _, _, _)
\* The loop over the matches, from match k on.
CollectItems(ms, k, its, seen) ==
    IF k > Len(ms) THEN [items |-> its, seen_items |-> seen]
    ELSE IF ~PassesFilter(CleanDesc(ms[k].desc))
         THEN CollectItems(ms, k + 1, its, seen)
         ELSE IF IsNewKey(ItemKey(ms[k]), seen)
              THEN CollectItems(ms, k + 1, Append(its, ItemOfMatch(ms[k])),
                                seen \cup {ItemKey(ms[k])})
              ELSE CollectItems(ms, k + 1, its, seen)

-----------------------------------------------------------------------------
(* extract_all_items: Strategy B *)

\* The guard of Strategy B left out: it runs whatever Strategy A found.
NeedsStrategyBAlways(its) == TRUE

\* if not items: (line 134)
NeedsStrategyB(its) == its = <<>>

\* The line range in which descriptions are looked for.
SearchRange(ls, inv, item) ==
    IF inv > 0 /\ item > inv
    THEN [start |-> Max(0, inv - SectionPadding), end |-> item]
    ELSE IF item > 0
         THEN [start |-> Max(0, item - SectionPadding),
               end |-> Min(item + ItemWindow, Len(ls))]
         ELSE [start |-> 0, end |-> Len(ls)]

\* re.match(r'^\d{lo,hi}$', line)
IsDigitsLine(ln, lo, hi) ==
    Len(ln) = 1 /\ IsNum(ln[1]) /\ Len(ln[1]) >= lo /\ Len(ln[1]) <= hi

\* re.match(r'^\d{8}$', ln.strip())
IsCodeLine(ln) == IsDigitsLine(ln, 8, 8)

\* re.match(r'^(KGS|NOS|PCS|MTR|LTR|UNT|BOX)$', line)
IsUnitLine(ln) == Len(ln) = 1 /\ ln[1] \in Units

\* The test of lines 162-166 on one line.
LooksLikeDescription(ln) ==
    /\ ln # <<>>
    /\ StartsUpper(ln[1])
    /\ ~(Len(ln) = 1 /\ IsNum(ln[1]))
    /\ ~(Len(ln) >= 2 /\ IsNum(ln[1]) /\ ln[2] \in {"KGS", "NOS", "PCS"})
    /\ CharLen(ln) > MinLineDescLen

InSeq(x, s) == \E k \in 1..Len(s) : s[k] = x

RECURSIVE FirstDescription(_, _, _, _)
\* The inner loop: the first line of j .. stop-1 that looks like a
\* description not collected yet, or -1.
FirstDescription(ls, j, stop, descs) ==
    IF j >= stop THEN -1
    ELSE IF LooksLikeDescription(At(ls, j)) /\ ~InSeq(JoinSp(At(ls, j)), descs)
         THEN j
         ELSE FirstDescription(ls, j + 1, stop, descs)

RECURSIVE FindDescriptions(_, _, _, _, _)
\* The loop over the code lines of i .. end-1.
FindDescriptions(ls, i, end, descs, idxs) ==
    IF i >= end THEN [descriptions |-> descs, desc_indices |-> idxs]
    ELSE IF ~IsCodeLine(At(ls, i))
         THEN FindDescriptions(ls, i + 1, end, descs, idxs)
         ELSE LET j == FirstDescription(ls, i + 1,
                                        Min(i + DescLookahead, end), descs)
              IN  IF j < 0
                  THEN FindDescriptions(ls, i + 1, end, descs, idxs)
                  ELSE FindDescriptions(ls, i + 1, end,
                                        Append(descs, JoinSp(At(ls, j))),
                                        Append(idxs, j))

\* for j in range(i+1, min(i+5, len(lines))): a unit line
HasUnitAhead(ls, i) ==
    \E j \in (i + 1)..(Min(i + UnitLookahead, Len(ls)) - 1) :
        IsUnitLine(At(ls, j))

\* The rate test that only asks for a first quantity.
CollectsRateAfterFirstQuantity(nq, nr, nd) == nq >= 1 /\ nr < nd

\* len(quantities) > len(rates) and len(rates) < len(descriptions)
CollectsRate(nq, nr, nd) == nq > nr /\ nr < nd

\* len(rates) > len(totals) and len(totals) < len(descriptions)
CollectsTotal(nr, nt, nd) == nr > nt /\ nt < nd

\* One iteration of the forward scan, on line i: the three tests in turn.
ScanStep(ls, i, nd, q, r, t) ==
    LET ln == At(ls, i)
        q2 == IF IsDigitsLine(ln, 2, 4) /\ Len(q) < nd /\ HasUnitAhead(ls, i)
              THEN Append(q, ln[1]) ELSE q
        r2 == IF IsDigitsLine(ln, 1, 2) /\ CollectsRate(Len(q2), Len(r), nd)
              THEN Append(r, ln[1]) ELSE r
        t2 == IF IsDigitsLine(ln, 3, 5) /\ CollectsTotal(Len(r2), Len(t), nd)
              THEN Append(t, ln[1]) ELSE t
    IN  [quantities |-> q2, rates |-> r2, totals |-> t2]

\* min(search_start + 30, len(lines))
ScanEnd(ls, idxs) == Min(idxs[1] + ScanWindow, Len(ls))

RECURSIVE ScanFrom(_, _, _, _, _, _, _)
\* The forward scan over lines i .. stop-1.
ScanFrom(ls, i, stop, nd, q, r, t) ==
    IF i >= stop THEN [quantities |-> q, rates |-> r, totals |-> t]
    ELSE LET s == ScanStep(ls, i, nd, q, r, t)
         IN  ScanFrom(ls, i + 1, stop, nd, s.quantities, s.rates, s.totals)

\* The loop of lines 201-208.
ZipItems(descs, q, r, t) ==
    [idx \in 1..Len(descs) |->
        [Description |-> descs[idx],
         Qty |-> IF idx <= Len(q) THEN q[idx] ELSE "",
         Rate |-> IF idx <= Len(r) THEN r[idx] ELSE "",
         Total |-> IF idx <= Len(t) THEN t[idx] ELSE ""]]

-----------------------------------------------------------------------------
(* extract_all_items: Strategy C *)

\* if not items: (line 211)
NeedsStrategyC(its) == its = <<>>

\* m_desc: the first code followed by a description and, ahead of it, a
\* number and a unit.
FallbackDescription(toks) ==
    LET hits == {i \in 1..(Len(toks) - 1) :
                    /\ IsCode8(toks[i])
                    /\ StartsUpper(toks[i + 1])
                    /\ LET e == DescRunEnd(toks, i + 1)
                       IN  /\ e + 2 <= Len(toks)
                           /\ IsNum(toks[e + 1])
                           /\ toks[e + 2] \in FallbackUnits}
    IN  IF hits = {} THEN ""
        ELSE LET i == SetMin(hits)
             IN  JoinSp(CleanDesc(SubSeq(toks, i + 1, DescRunEnd(toks, i + 1))))

\* m_qty: the first <qty> <unit> <rate> <total>, as a sequence of one or none.
FallbackQty(toks) ==
    LET hits == {i \in 1..(Len(toks) - 3) :
                    /\ IsNum(toks[i])
                    /\ toks[i + 1] \in Units
                    /\ IsNum(toks[i + 2])
                    /\ IsNum(toks[i + 3])}
    IN  IF hits = {} THEN <<>>
        ELSE LET i == SetMin(hits)
             IN  << [Qty |-> toks[i], Rate |-> toks[i + 2],
                     Total |-> toks[i + 3]] >>

FallbackItem(toks) ==
    LET m == FallbackQty(toks)
    IN  [Description |-> FallbackDescription(toks),
         Qty |-> IF m = <<>> THEN "" ELSE m[1].Qty,
         Rate |-> IF m = <<>> THEN "" ELSE m[1].Rate,
         Total |-> IF m = <<>> THEN "" ELSE m[1].Total]

-----------------------------------------------------------------------------
(* extract_all_items as one function, and the rows of a document *)

StrategyA(ls, txt) ==
    LET sec == FindSections(ls, 0, -1)
    IN  CollectItems(FindItemMatches(
                        SearchText(ls, txt, sec.invoice, sec.item), 1),
                     1, <<>>, {}).items

StrategyB(ls) ==
    LET sec == FindSections(ls, 0, -1)
        rng == SearchRange(ls, sec.invoice, sec.item)
        d == FindDescriptions(ls, rng.start, rng.end, <<>>, <<>>)
    IN  IF d.descriptions = <<>> THEN <<>>
        ELSE LET s == ScanFrom(ls, d.desc_indices[1],
                               ScanEnd(ls, d.desc_indices),
                               Len(d.descriptions), <<>>, <<>>, <<>>)
             IN  ZipItems(d.descriptions, s.quantities, s.rates, s.totals)

extract_all_items(ls, txt) ==
    LET a == StrategyA(ls, txt)
        b == IF NeedsStrategyB(a) THEN StrategyB(ls) ELSE a
    IN  IF NeedsStrategyC(b) THEN <<FallbackItem(Flatten(txt))>> ELSE b

\* The join made whether or not the currency and the rate are empty.
RateWithCurrencyAlwaysJoined(cur, rate) == cur \o " " \o rate

\* rate_with_currency (line 264)
RateWithCurrency(cur, rate) ==
    IF cur # "" /\ rate # "" THEN cur \o " " \o rate ELSE rate

\* The row of one item (lines 266-276); of the common fields the model
\* carries the currency only, which has no column of its own.
RowOf(cd, item) ==
    [Description |-> item.Description, Qty |-> item.Qty,
     Rate |-> RateWithCurrency(cd.Currency, item.Rate),
     Total |-> item.Total]

\* The rows with the items that have no rate left out.
RowsOfRatedItems(cd, its) ==
    LET rated == SelectSeq(its, LAMBDA it : it.Rate # "")
    IN  [k \in 1..Len(rated) |-> RowOf(cd, rated[k])]

\* for item in items: rows.append(row)
RowsOf(cd, its) == [k \in 1..Len(its) |-> RowOf(cd, its[k])]

-----------------------------------------------------------------------------
(* The documents the model reads *)

BLANK == <<>>
INV == <<"INVOICE", "DETAILS">>
ITEM == <<"ITEM", "DETAILS">>
\* Two records with one key and different descriptions; ROSE BUNCH has
\* exactly 10 characters.
REC_A == <<"06039000", "ROSE", "BUNCH", "632", "KGS", "3", "1896">>
REC_A2 == <<"06039000", "MIXED", "FLOWERS", "&", "632", "KGS", "3", "1896">>
REC_B == <<"06031100", "FRESH", "FLOWERS", "50", "NOS", "3", "150">>
\* ROSE BUDS has exactly 9 characters and one space.
REC_9 == <<"06031100", "ROSE", "BUDS", "12", "PCS", "4", "50">>
\* A description of 10 characters with no space.
REC_NS == <<"06039000", "CARNATIONS", "12", "BOX", "1", "12">>
CODE_1 == <<"06039000">>
CODE_2 == <<"06031100">>
DESC_1 == <<"CARNATIONS">>
DESC_2 == <<"LILIES">>
XRATE == <<"1", "SGD", "INR">>
LABEL == <<"4.CURRENCY">>
FILLER == <<"EXPORTER">>

FreeLines == {BLANK, INV, ITEM, REC_A, REC_A2, REC_B, REC_9, REC_NS,
              CODE_1, DESC_1, XRATE}
TailLines == {<<"632">>, <<"12">>, <<"3">>, <<"1896">>, <<"KGS">>}
CurrencyLines == {LABEL, <<"USD">>}

SeqsUpTo(S, n) == UNION {[1..k -> S] : k \in 0..n}

\* Every sequence of at most MaxLines vocabulary lines.
FreeDocs == SeqsUpTo(FreeLines, MaxLines)

\* Columnar documents: one or two code and description lines, then a tail
\* of number and unit lines.
ColumnDocs ==
    {p \o t : p \in {<<CODE_1, DESC_1>>, <<CODE_1, DESC_1, CODE_2, DESC_2>>},
              t \in SeqsUpTo(TailLines, MaxTail)}

\* Filler lines with at most two label or currency lines among them.
CurrencyDocs ==
    UNION {
        {[[ [k \in 1..n |-> FILLER] EXCEPT ![i] = a] EXCEPT ![j] = b] :
            i \in 1..n, j \in 1..n, a \in CurrencyLines \cup {FILLER},
            b \in CurrencyLines \cup {FILLER}} : n \in 1..MaxCurLines}

Docs == FreeDocs \cup ColumnDocs \cup CurrencyDocs

-----------------------------------------------------------------------------
(* One document: the body of the loop of process_shipping_bills *)

NoBatch == folder = <<>> /\ file_idx = 0 /\ batch_rows = <<>> /\ batch_pc = "idle"
NoUpload == now = 0 /\ req = <<>> /\ outputs = <<>>

DocStart(t, p) ==
    /\ text = t
    /\ pc = p
    /\ lines = <<>>
    /\ common_data = [Currency |-> ""]
    /\ invoice_section_start = -1
    /\ item_section_start = -1
    /\ search_text = <<>>
    /\ matches = <<>>
    /\ seen_items = {}
    /\ items = <<>>
    /\ descriptions = <<>>
    /\ desc_indices = <<>>
    /\ quantities = <<>>
    /\ rates = <<>>
    /\ totals = <<>>
    /\ scan_i = 0
    /\ ran = <<>>
    /\ rows = <<>>

\* doc = fitz.open(path); text += page.get_text() for every page
Init == (\E t \in Docs : DocStart(t, "clean")) /\ NoBatch /\ NoUpload

\* lines = clean_lines(text)
CleanLines ==
    /\ pc = "clean"
    /\ lines' = clean_lines(text)
    /\ pc' = "common"
    /\ UNCHANGED <<text, common_data, invoice_section_start,
                   item_section_start, search_text, matches, seen_items,
                   items, descriptions, desc_indices, quantities, rates,
                   totals, scan_i, ran, rows>>
    /\ UNCHANGED <<batchVars, uploadVars>>

\* common_data = extract_common_fields(lines, text)
ExtractCommonFields ==
    /\ pc = "common"
    /\ common_data' = extract_common_fields(lines, text)
    /\ pc' = "sections"
    /\ UNCHANGED <<text, lines, invoice_section_start, item_section_start,
                   search_text, matches, seen_items, items, descriptions,
                   desc_indices, quantities, rates, totals, scan_i, ran, rows>>
    /\ UNCHANGED <<batchVars, uploadVars>>

\* extract_all_items, lines 81-95
LocateSections ==
    /\ pc = "sections"
    /\ LET sec == FindSections(lines, 0, -1)
       IN  /\ invoice_section_start' = sec.invoice
           /\ item_section_start' = sec.item
    /\ pc' = "A"
    /\ UNCHANGED <<text, lines, common_data, search_text, matches,
                   seen_items, items, descriptions, desc_indices, quantities,
                   rates, totals, scan_i, ran, rows>>
    /\ UNCHANGED <<batchVars, uploadVars>>

\* extract_all_items, lines 97-131
RunStrategyA ==
    /\ pc = "A"
    /\ search_text' = SearchText(lines, text, invoice_section_start,
                                 item_section_start)
    /\ matches' = FindItemMatches(search_text', 1)
    /\ LET r == CollectItems(matches', 1, items, seen_items)
       IN  /\ items' = r.items
           /\ seen_items' = r.seen_items
    /\ ran' = Append(ran, "A")
    /\ pc' = "B"
    /\ UNCHANGED <<text, lines, common_data, invoice_section_start,
                   item_section_start, descriptions, desc_indices,
                   quantities, rates, totals, scan_i, rows>>
    /\ UNCHANGED <<batchVars, uploadVars>>

\* line 134, items found already
SkipStrategyB ==
    /\ pc = "B"
    /\ ~NeedsStrategyB(items)
    /\ pc' = "C"
    /\ UNCHANGED <<text, lines, common_data, invoice_section_start,
                   item_section_start, search_text, matches, seen_items,
                   items, descriptions, desc_indices, quantities, rates,
                   totals, scan_i, ran, rows>>
    /\ UNCHANGED <<batchVars, uploadVars>>

\* extract_all_items, lines 134-180
FindDescriptionsB ==
    /\ pc = "B"
    /\ NeedsStrategyB(items)
    /\ LET rng == SearchRange(lines, invoice_section_start, item_section_start)
           d == FindDescriptions(lines, rng.start, rng.end, <<>>, <<>>)
       IN  /\ descriptions' = d.descriptions
           /\ desc_indices' = d.desc_indices
           /\ IF d.descriptions = <<>>
              THEN pc' = "C" /\ scan_i' = scan_i
              ELSE pc' = "scan" /\ scan_i' = d.desc_indices[1]
    /\ ran' = Append(ran, "B")
    /\ UNCHANGED <<text, lines, common_data, invoice_section_start,
                   item_section_start, search_text, matches, seen_items,
                   items, quantities, rates, totals, rows>>
    /\ UNCHANGED <<batchVars, uploadVars>>

\* one iteration of the loop of lines 182-198
ScanLineB ==
    /\ pc = "scan"
    /\ scan_i < ScanEnd(lines, desc_indices)
    /\ LET s == ScanStep(lines, scan_i, Len(descriptions), quantities,
                         rates, totals)
       IN  /\ quantities' = s.quantities
           /\ rates' = s.rates
           /\ totals' = s.totals
    /\ scan_i' = scan_i + 1
    /\ UNCHANGED <<text, lines, common_data, invoice_section_start,
                   item_section_start, search_text, matches, seen_items,
                   items, descriptions, desc_indices, ran, rows, pc>>
    /\ UNCHANGED <<batchVars, uploadVars>>

\* the loop of lines 182-198 is over: lines 200-208
ZipItemsB ==
    /\ pc = "scan"
    /\ scan_i >= ScanEnd(lines, desc_indices)
    /\ items' = items \o ZipItems(descriptions, quantities, rates, totals)
    /\ pc' = "C"
    /\ UNCHANGED <<text, lines, common_data, invoice_section_start,
                   item_section_start, search_text, matches, seen_items,
                   descriptions, desc_indices, quantities, rates, totals,
                   scan_i, ran, rows>>
    /\ UNCHANGED <<batchVars, uploadVars>>

\* line 211, items found already
SkipStrategyC ==
    /\ pc = "C"
    /\ ~NeedsStrategyC(items)
    /\ pc' = "rows"
    /\ UNCHANGED <<text, lines, common_data, invoice_section_start,
                   item_section_start, search_text, matches, seen_items,
                   items, descriptions, desc_indices, quantities, rates,
                   totals, scan_i, ran, rows>>
    /\ UNCHANGED <<batchVars, uploadVars>>

\* extract_all_items, lines 211-233
RunStrategyC ==
    /\ pc = "C"
    /\ NeedsStrategyC(items)
    /\ items' = Append(items, FallbackItem(Flatten(text)))
    /\ ran' = Append(ran, "C")
    /\ pc' = "rows"
    /\ UNCHANGED <<text, lines, common_data, invoice_section_start,
                   item_section_start, search_text, matches, seen_items,
                   descriptions, desc_indices, quantities, rates, totals,
                   scan_i, rows>>
    /\ UNCHANGED <<batchVars, uploadVars>>

\* process_shipping_bills, lines 262-277
ExpandRows ==
    /\ pc = "rows"
    /\ rows' = rows \o RowsOf(common_data, items)
    /\ pc' = "done"
    /\ UNCHANGED <<text, lines, common_data, invoice_section_start,
                   item_section_start, search_text, matches, seen_items,
                   items, descriptions, desc_indices, quantities, rates,
                   totals, scan_i, ran>>
    /\ UNCHANGED <<batchVars, uploadVars>>

Next ==
    \/ CleanLines
    \/ ExtractCommonFields
    \/ LocateSections
    \/ RunStrategyA
    \/ SkipStrategyB
    \/ FindDescriptionsB
    \/ ScanLineB
    \/ ZipItemsB
    \/ SkipStrategyC
    \/ RunStrategyC
    \/ ExpandRows

Spec == Init /\ [][Next]_vars

-----------------------------------------------------------------------------
(* The batch: process_shipping_bills over a folder *)

\* The entries of a folder: whether the name ends in .pdf, whether
\* fitz.open and get_text succeed on it, and the text they give.
FileKinds ==
    {[pdf |-> TRUE, readable |-> TRUE, text |-> <<REC_A, REC_B>>],
     [pdf |-> TRUE, readable |-> TRUE, text |-> <<XRATE, REC_9>>],
     [pdf |-> TRUE, readable |-> FALSE, text |-> <<>>],
     [pdf |-> FALSE, readable |-> TRUE, text |-> <<>>]}

\* The rows lines 253-277 append for one readable document.
DocumentRows(txt) ==
    LET ls == clean_lines(txt)
    IN  RowsOf(extract_common_fields(ls, txt), extract_all_items(ls, txt))

InitBatch ==
    /\ folder \in SeqsUpTo(FileKinds, MaxFiles)
    /\ file_idx = 0
    /\ batch_rows = <<>>
    /\ batch_pc = "loop"
    /\ DocStart(<<>>, "idle")
    /\ NoUpload

\* if file.lower().endswith(".pdf"): is false
SkipOtherFile ==
    /\ batch_pc = "loop"
    /\ file_idx < Len(folder)
    /\ ~At(folder, file_idx).pdf
    /\ file_idx' = file_idx + 1
    /\ UNCHANGED <<folder, batch_rows, batch_pc, docVars, uploadVars>>

\* lines 244-277 for one file that opens
ProcessFile ==
    /\ batch_pc = "loop"
    /\ file_idx < Len(folder)
    /\ At(folder, file_idx).pdf
    /\ At(folder, file_idx).readable
    /\ batch_rows' = batch_rows \o DocumentRows(At(folder, file_idx).text)
    /\ file_idx' = file_idx + 1
    /\ UNCHANGED <<folder, batch_pc, docVars, uploadVars>>

\* fitz.open(path) or page.get_text() raises: nothing in
\* process_shipping_bills catches it, and the call ends without a table.
OpenFails ==
    /\ batch_pc = "loop"
    /\ file_idx < Len(folder)
    /\ At(folder, file_idx).pdf
    /\ ~At(folder, file_idx).readable
    /\ batch_pc' = "raised"
    /\ UNCHANGED <<folder, file_idx, batch_rows, docVars, uploadVars>>

\* return pd.DataFrame(rows)
ReturnTable ==
    /\ batch_pc = "loop"
    /\ file_idx >= Len(folder)
    /\ batch_pc' = "returned"
    /\ UNCHANGED <<folder, file_idx, batch_rows, docVars, uploadVars>>

NextBatch ==
    \/ SkipOtherFile
    \/ ProcessFile
    \/ OpenFails
    \/ ReturnTable

SpecBatch == InitBatch /\ [][NextBatch]_vars

-----------------------------------------------------------------------------
(* The upload endpoint: upload_file, one thread per request *)

Requests == 1..NumRequests

\* What a request uploads: a file the checks of lines 30-39 refuse, an
\* archive with no PDF in it, a PDF that cannot be read, a PDF that can.
UploadKinds == {"invalid", "nopdf", "unreadable", "ok"}

\* f'shipping_bill_{timestamp}.csv' and f'shipping_bill_{timestamp}.xlsx'
OutputName(timestamp, ext) == <<timestamp, ext>>

OutputNames == {OutputName(t, e) : t \in 0..MaxClock, e \in {"csv", "xlsx"}}

\* An output file holds the table of one request (0: no such file).
InitUpload ==
    /\ now = 0
    /\ req \in [Requests -> {[kind |-> k, pc |-> "received", timestamp |-> -1,
                              status |-> 0] : k \in UploadKinds}]
    /\ outputs = [n \in OutputNames |-> 0]
    /\ DocStart(<<>>, "idle")
    /\ NoBatch

\* time passes
Tick ==
    /\ now < MaxClock
    /\ now' = now + 1
    /\ UNCHANGED <<req, outputs, docVars, batchVars>>

\* lines 30-39: no file, no name, or a type that is not allowed
RejectUpload(r) ==
    /\ req[r].pc = "received"
    /\ req[r].kind = "invalid"
    /\ req' = [req EXCEPT ![r].pc = "done", ![r].status = 400]
    /\ UNCHANGED <<now, outputs, docVars, batchVars>>

\* lines 64-70: num_files == 0
NoPdfFound(r) ==
    /\ req[r].pc = "received"
    /\ req[r].kind = "nopdf"
    /\ req' = [req EXCEPT ![r].pc = "done", ![r].status = 400]
    /\ UNCHANGED <<now, outputs, docVars, batchVars>>

\* line 73 raises, lines 96-100
ProcessingError(r) ==
    /\ req[r].pc = "received"
    /\ req[r].kind = "unreadable"
    /\ req' = [req EXCEPT ![r].pc = "done", ![r].status = 500]
    /\ UNCHANGED <<now, outputs, docVars, batchVars>>

\* lines 73-79: the table, then timestamp = str(int(time.time()))
NameOutputs(r) ==
    /\ req[r].pc = "received"
    /\ req[r].kind = "ok"
    /\ req' = [req EXCEPT ![r].pc = "named", ![r].timestamp = now]
    /\ UNCHANGED <<now, outputs, docVars, batchVars>>

\* df.to_csv(output_csv, index=False)
SaveCsv(r) ==
    /\ req[r].pc = "named"
    /\ outputs' = [outputs EXCEPT ![OutputName(req[r].timestamp, "csv")] = r]
    /\ req' = [req EXCEPT ![r].pc = "csv"]
    /\ UNCHANGED <<now, docVars, batchVars>>

\* df.to_excel(output_excel, index=False)
SaveExcel(r) ==
    /\ req[r].pc = "csv"
    /\ outputs' = [outputs EXCEPT ![OutputName(req[r].timestamp, "xlsx")] = r]
    /\ req' = [req EXCEPT ![r].pc = "excel"]
    /\ UNCHANGED <<now, docVars, batchVars>>

\* lines 86-94: the response names the two files
Respond(r) ==
    /\ req[r].pc = "excel"
    /\ req' = [req EXCEPT ![r].pc = "done", ![r].status = 200]
    /\ UNCHANGED <<now, outputs, docVars, batchVars>>

NextUpload ==
    \/ Tick
    \/ \E r \in Requests : RejectUpload(r)
    \/ \E r \in Requests : NoPdfFound(r)
    \/ \E r \in Requests : ProcessingError(r)
    \/ \E r \in Requests : NameOutputs(r)
    \/ \E r \in Requests : SaveCsv(r)
    \/ \E r \in Requests : SaveExcel(r)
    \/ \E r \in Requests : Respond(r)

SpecUpload == InitUpload /\ [][NextUpload]_vars

-----------------------------------------------------------------------------
(* Claims *)

AfterStrategyA == pc \notin {"clean", "common", "sections", "A"}

RECURSIVE ReadableRows(_, _)
\* The rows of the readable PDF files of a folder, from file k on.
ReadableRows(f, k) ==
    IF k >= Len(f) THEN <<>>
    ELSE (IF At(f, k).pdf /\ At(f, k).readable
          THEN DocumentRows(At(f, k).text) ELSE <<>>) \o ReadableRows(f, k + 1)

\* C1: when the batch has ended, a table has been returned, and it holds
\* the rows of every document of the folder that could be read: a document
\* that fails to open is skipped and does not end the batch.
C1SkipAndContinue ==
    batch_pc \in {"returned", "raised"} =>
        /\ batch_pc = "returned"
        /\ batch_rows = ReadableRows(folder, 0)

\* C2: for a processed document, as many rows are appended as
\* extract_all_items returned items, and there is at least one item,
\* whatever the text.
C2RowsPerItem ==
    pc = "done" =>
        /\ Len(rows) = Len(items)
        /\ Len(items) >= 1
        /\ items = extract_all_items(lines, text)

\* A document in which no strategy matched anything got its one row.
C2Witness ==
    /\ pc = "done"
    /\ ran = <<"A", "B", "C">>
    /\ matches = <<>>
    /\ descriptions = <<>>
    /\ FallbackQty(Flatten(text)) = <<>>
    /\ Len(rows) = 1

\* C3: the strategies run in the order A, B, C and stop at the first that
\* yields an item: if A yields, neither B nor C runs and the result is A's
\* items; C runs only if A and B both yielded nothing; the result is the
\* yield of one strategy.
C3StrategyOrder ==
    pc = "done" =>
        LET a == StrategyA(lines, text)
            b == StrategyB(lines)
        IN  /\ ran \in {<<"A">>, <<"A", "B">>, <<"A", "B", "C">>}
            /\ a # <<>> => ran = <<"A">> /\ items = a
            /\ InSeq("C", ran) => a = <<>> /\ b = <<>>
            /\ ran = <<"A", "B">> => a = <<>> /\ items = b /\ b # <<>>
            /\ ran = <<"A", "B", "C">> => Len(items) = 1

\* Strategy A yielded on a text on which Strategy B would have yielded too,
\* and only A ran.
C3Witness ==
    /\ pc = "done"
    /\ ran = <<"A">>
    /\ items # <<>>
    /\ StrategyB(lines) # <<>>

\* The matches that pass the filter, and among them the first of each key.
Passing == {k \in 1..Len(matches) : PassesFilter(CleanDesc(matches[k].desc))}
FirstOfKey ==
    {k \in Passing :
        \A j \in Passing : j < k => ItemKey(matches[j]) # ItemKey(matches[k])}

\* C4: Strategy A emits one item for each key (code, quantity, rate,
\* total) among its matches, the first match of the key in encounter
\* order, so no two items come from matches with the same key.
C4Dedup ==
    pc = "B" =>
        /\ Len(items) = Cardinality(FirstOfKey)
        /\ \A k \in FirstOfKey :
              items[Cardinality({j \in FirstOfKey : j <= k})]
                  = ItemOfMatch(matches[k])
        /\ seen_items = {ItemKey(matches[k]) : k \in Passing}

\* Two identical records were matched and one item was emitted.
C4Witness ==
    /\ pc = "B"
    /\ Len(matches) = 2
    /\ Passing = {1, 2}
    /\ ItemKey(matches[1]) = ItemKey(matches[2])
    /\ matches[1].desc = matches[2].desc
    /\ Len(items) = 1

\* C5: the Rate column of a row is the currency, a space and the item's
\* rate when both are non-empty, and the item's bare rate otherwise.
C5RateColumn ==
    pc = "done" =>
        /\ Len(rows) = Len(items)
        /\ \A k \in 1..Len(rows) :
            LET cur == common_data.Currency
                r == items[k].Rate
            IN  /\ (cur # "" /\ r # "") => rows[k].Rate = cur \o " " \o r
                /\ cur = "" => rows[k].Rate = r
                /\ r = "" => rows[k].Rate = ""

\* A row of a document with a currency and a rate.
C5Witness ==
    /\ pc = "done"
    /\ common_data.Currency = "SGD"
    /\ \E k \in 1..Len(rows) : items[k].Rate = "3" /\ rows[k].Rate = "SGD 3"

\* A match is kept when an item carries its cleaned description.
KeptAsItem(m) ==
    \E j \in 1..Len(items) :
        items[j].Description = JoinSp(CleanDesc(m.desc))

\* C6 as stated: a cleaned description of exactly 9 characters with one
\* space is accepted by Strategy A's filter, and one with no space is
\* discarded.
C6NineAccepted ==
    pc = "B" =>
        \A k \in 1..Len(matches) :
            LET d == CleanDesc(matches[k].desc)
            IN  /\ (CharLen(d) = 9 /\ SpaceCount(d) = 1)
                      => ItemKey(matches[k]) \in seen_items
                /\ SpaceCount(d) = 0 => ~KeptAsItem(matches[k])

\* C6 as amended: a cleaned description of exactly 9 characters is
\* discarded even with one space; one of 10 characters or more with a space
\* is accepted; one with no space is discarded.
C6TenAccepted ==
    pc = "B" =>
        \A k \in 1..Len(matches) :
            LET d == CleanDesc(matches[k].desc)
            IN  /\ (CharLen(d) >= 10 /\ SpaceCount(d) >= 1)
                      => ItemKey(matches[k]) \in seen_items
                /\ CharLen(d) <= 9 => ~KeptAsItem(matches[k])
                /\ SpaceCount(d) = 0 => ~KeptAsItem(matches[k])

\* A description of 9 characters with one space was discarded beside one of
\* 10 characters that was kept.
C6Witness ==
    /\ pc = "B"
    /\ \E k \in 1..Len(matches) :
          LET d == CleanDesc(matches[k].desc)
          IN  CharLen(d) = 9 /\ SpaceCount(d) = 1 /\ ~KeptAsItem(matches[k])
    /\ \E k \in 1..Len(matches) :
          LET d == CleanDesc(matches[k].desc)
          IN  CharLen(d) = 10 /\ SpaceCount(d) = 1 /\ KeptAsItem(matches[k])

\* The search text the markers call for, wherever they are.
MarkedSearchText ==
    LET itemAt == {i \in 0..(Len(lines) - 1) : IsItemMarker(At(lines, i))}
    IN  IF itemAt = {} THEN Flatten(text)
        ELSE LET item == SetMin(itemAt)
                 invAt == {i \in 0..(item - 1) : IsInvoiceMarker(At(lines, i))}
             IN  IF invAt # {}
                 THEN Flatten(Slice(lines,
                                    CHOOSE i \in invAt : \A j \in invAt : j <= i,
                                    item))
                 ELSE Flatten(Slice(lines, item, item + ItemWindow))

\* C7: Strategy A searches the lines from the invoice marker up to the item
\* marker when an invoice marker precedes the item marker, else at most 100
\* lines from the item marker when there is one, else the full text,
\* wherever the markers are, the first line included.
C7SearchTextByMarkers == AfterStrategyA => search_text = MarkedSearchText

\* C8: after a label line at index i, each of the lines i+1 .. i+10 is
\* examined: a currency code on line i+10, with no code on a line before
\* it, becomes the Currency.
C8TenthLineExamined ==
    pc \notin {"clean", "common"} =>
        \A i \in 0..(Len(lines) - 1) :
            (/\ IsCurrencyLabel(At(lines, i))
             /\ i + 10 < Len(lines)
             /\ IsCurrencyLine(At(lines, i + 10))
             /\ \A j \in 0..(i + 9) : ~IsCurrencyLine(At(lines, j)))
            => common_data.Currency = At(lines, i + 10)[1]

\* The line the forward scan examines in a step, and whether it is a
\* standalone number of 1 or 2 digits.
ScanLine == At(lines, scan_i)
ScanStepTaken == pc = "scan" /\ scan_i' = scan_i + 1

\* C9 as stated: in the forward scan a standalone 1-2 digit line is
\* collected as a rate whenever a quantity has been collected before it and
\* fewer rates than descriptions have been collected.
C9RateAfterFirstQuantity ==
    [][(/\ ScanStepTaken
        /\ IsDigitsLine(ScanLine, 1, 2)
        /\ Len(quantities) >= 1
        /\ Len(rates) < Len(descriptions))
       => rates' = Append(rates, ScanLine[1])]_vars

\* C9 as amended: a standalone 1-2 digit line is collected as a rate
\* exactly when more quantities than rates have been collected (the line
\* itself counted, when it has just been collected as a quantity) and fewer
\* rates than descriptions; so there are never more rates than quantities.
C9RateBelowQuantities ==
    [][ScanStepTaken =>
        /\ IF /\ IsDigitsLine(ScanLine, 1, 2)
              /\ Len(quantities') > Len(rates)
              /\ Len(rates) < Len(descriptions)
           THEN rates' = Append(rates, ScanLine[1])
           ELSE rates' = rates
        /\ Len(rates') <= Len(quantities')
        /\ Len(rates') <= Len(descriptions)]_vars

\* Two 1-2 digit lines were scanned after a quantity was collected, with
\* two descriptions, and one rate was collected.
C9Witness ==
    /\ pc = "scan"
    /\ Len(descriptions) = 2
    /\ Len(quantities) = 1
    /\ Len(rates) = 1
    /\ \E q, j, k \in desc_indices[1]..(scan_i - 1) :
          /\ q < j /\ j < k
          /\ IsDigitsLine(At(lines, q), 2, 4) /\ HasUnitAhead(lines, q)
          /\ IsDigitsLine(At(lines, j), 1, 1)
          /\ IsDigitsLine(At(lines, k), 1, 1)

\* C10: no two requests write to one output path, and the files a response
\* names hold the table of its request.
C10UniqueOutputs ==
    /\ \A r1, r2 \in Requests :
          (r1 # r2 /\ req[r1].timestamp >= 0 /\ req[r2].timestamp >= 0)
          => req[r1].timestamp # req[r2].timestamp
    /\ \A r \in Requests :
          req[r].status = 200 =>
              /\ outputs[OutputName(req[r].timestamp, "csv")] = r
              /\ outputs[OutputName(req[r].timestamp, "xlsx")] = r

====
